---- MODULE Spec2Model ----
(***************************************************************************)
(* A model of sskr-tool: the Bytewords codec (bytewords.rs), the share     *)
(* metadata parser (sskr_shares.rs), the split orchestrator (split.rs)     *)
(* and the recovery orchestrator (recover.rs).                             *)
(*                                                                         *)
(* Text is modelled as a sequence of character codes (ASCII), bytes as     *)
(* integers 0..255.  A Result is a record whose field ok tells Ok from     *)
(* Err; an Err carries the kind of the error and what it names.            *)
(***************************************************************************)
EXTENDS Integers, Sequences, FiniteSets, TLC

(***************************************************************************)
(* bytewords.rs                                                            *)
(***************************************************************************)

\* The word table, 256 four-letter words, as the character codes of the
\* 1024-character string of the source ("able" = 97 98 108 101, ...).
WORDS ==
<<
    97, 98, 108, 101, 97, 99, 105, 100, 97, 108, 115, 111, 97, 112, 101, 120, 97, 113, 117, 97, 97, 114, 99, 104, 97, 116, 111, 109, 97, 117, 110, 116, 97, 119, 97, 121, 97, 120, 105, 115, 98, 97, 99, 107, 98, 97, 108, 100, 98, 97, 114, 110, 98, 101, 108, 116, 98, 101, 116, 97, 98, 105, 97, 115,
    98, 108, 117, 101, 98, 111, 100, 121, 98, 114, 97, 103, 98, 114, 101, 119, 98, 117, 108, 98, 98, 117, 122, 122, 99, 97, 108, 109, 99, 97, 115, 104, 99, 97, 116, 115, 99, 104, 101, 102, 99, 105, 116, 121, 99, 108, 97, 119, 99, 111, 100, 101, 99, 111, 108, 97, 99, 111, 111, 107, 99, 111, 115, 116,
    99, 114, 117, 120, 99, 117, 114, 108, 99, 117, 115, 112, 99, 121, 97, 110, 100, 97, 114, 107, 100, 97, 116, 97, 100, 97, 121, 115, 100, 101, 108, 105, 100, 105, 99, 101, 100, 105, 101, 116, 100, 111, 111, 114, 100, 111, 119, 110, 100, 114, 97, 119, 100, 114, 111, 112, 100, 114, 117, 109, 100, 117, 108, 108,
    100, 117, 116, 121, 101, 97, 99, 104, 101, 97, 115, 121, 101, 99, 104, 111, 101, 100, 103, 101, 101, 112, 105, 99, 101, 118, 101, 110, 101, 120, 97, 109, 101, 120, 105, 116, 101, 121, 101, 115, 102, 97, 99, 116, 102, 97, 105, 114, 102, 101, 114, 110, 102, 105, 103, 115, 102, 105, 108, 109, 102, 105, 115, 104,
    102, 105, 122, 122, 102, 108, 97, 112, 102, 108, 101, 119, 102, 108, 117, 120, 102, 111, 120, 121, 102, 114, 101, 101, 102, 114, 111, 103, 102, 117, 101, 108, 102, 117, 110, 100, 103, 97, 108, 97, 103, 97, 109, 101, 103, 101, 97, 114, 103, 101, 109, 115, 103, 105, 102, 116, 103, 105, 114, 108, 103, 108, 111, 119,
    103, 111, 111, 100, 103, 114, 97, 121, 103, 114, 105, 109, 103, 117, 114, 117, 103, 117, 115, 104, 103, 121, 114, 111, 104, 97, 108, 102, 104, 97, 110, 103, 104, 97, 114, 100, 104, 97, 119, 107, 104, 101, 97, 116, 104, 101, 108, 112, 104, 105, 103, 104, 104, 105, 108, 108, 104, 111, 108, 121, 104, 111, 112, 101,
    104, 111, 114, 110, 104, 117, 116, 115, 105, 99, 101, 100, 105, 100, 101, 97, 105, 100, 108, 101, 105, 110, 99, 104, 105, 110, 107, 121, 105, 110, 116, 111, 105, 114, 105, 115, 105, 114, 111, 110, 105, 116, 101, 109, 106, 97, 100, 101, 106, 97, 122, 122, 106, 111, 105, 110, 106, 111, 108, 116, 106, 111, 119, 108,
    106, 117, 100, 111, 106, 117, 103, 115, 106, 117, 109, 112, 106, 117, 110, 107, 106, 117, 114, 121, 107, 101, 101, 112, 107, 101, 110, 111, 107, 101, 112, 116, 107, 101, 121, 115, 107, 105, 99, 107, 107, 105, 108, 110, 107, 105, 110, 103, 107, 105, 116, 101, 107, 105, 119, 105, 107, 110, 111, 98, 108, 97, 109, 98,
    108, 97, 118, 97, 108, 97, 122, 121, 108, 101, 97, 102, 108, 101, 103, 115, 108, 105, 97, 114, 108, 105, 109, 112, 108, 105, 111, 110, 108, 105, 115, 116, 108, 111, 103, 111, 108, 111, 117, 100, 108, 111, 118, 101, 108, 117, 97, 117, 108, 117, 99, 107, 108, 117, 110, 103, 109, 97, 105, 110, 109, 97, 110, 121,
    109, 97, 116, 104, 109, 97, 122, 101, 109, 101, 109, 111, 109, 101, 110, 117, 109, 101, 111, 119, 109, 105, 108, 100, 109, 105, 110, 116, 109, 105, 115, 115, 109, 111, 110, 107, 110, 97, 105, 108, 110, 97, 118, 121, 110, 101, 101, 100, 110, 101, 119, 115, 110, 101, 120, 116, 110, 111, 111, 110, 110, 111, 116, 101,
    110, 117, 109, 98, 111, 98, 101, 121, 111, 98, 111, 101, 111, 109, 105, 116, 111, 110, 121, 120, 111, 112, 101, 110, 111, 118, 97, 108, 111, 119, 108, 115, 112, 97, 105, 100, 112, 97, 114, 116, 112, 101, 99, 107, 112, 108, 97, 121, 112, 108, 117, 115, 112, 111, 101, 109, 112, 111, 111, 108, 112, 111, 115, 101,
    112, 117, 102, 102, 112, 117, 109, 97, 112, 117, 114, 114, 113, 117, 97, 100, 113, 117, 105, 122, 114, 97, 99, 101, 114, 97, 109, 112, 114, 101, 97, 108, 114, 101, 100, 111, 114, 105, 99, 104, 114, 111, 97, 100, 114, 111, 99, 107, 114, 111, 111, 102, 114, 117, 98, 121, 114, 117, 105, 110, 114, 117, 110, 115,
    114, 117, 115, 116, 115, 97, 102, 101, 115, 97, 103, 97, 115, 99, 97, 114, 115, 101, 116, 115, 115, 105, 108, 107, 115, 107, 101, 119, 115, 108, 111, 116, 115, 111, 97, 112, 115, 111, 108, 111, 115, 111, 110, 103, 115, 116, 117, 98, 115, 117, 114, 102, 115, 119, 97, 110, 116, 97, 99, 111, 116, 97, 115, 107,
    116, 97, 120, 105, 116, 101, 110, 116, 116, 105, 101, 100, 116, 105, 109, 101, 116, 105, 110, 121, 116, 111, 105, 108, 116, 111, 109, 98, 116, 111, 121, 115, 116, 114, 105, 112, 116, 117, 110, 97, 116, 119, 105, 110, 117, 103, 108, 121, 117, 110, 100, 111, 117, 110, 105, 116, 117, 114, 103, 101, 117, 115, 101, 114,
    118, 97, 115, 116, 118, 101, 114, 121, 118, 101, 116, 111, 118, 105, 97, 108, 118, 105, 98, 101, 118, 105, 101, 119, 118, 105, 115, 97, 118, 111, 105, 100, 118, 111, 119, 115, 119, 97, 108, 108, 119, 97, 110, 100, 119, 97, 114, 109, 119, 97, 115, 112, 119, 97, 118, 101, 119, 97, 120, 121, 119, 101, 98, 115,
    119, 104, 97, 116, 119, 104, 101, 110, 119, 104, 105, 122, 119, 111, 108, 102, 119, 111, 114, 107, 121, 97, 110, 107, 121, 97, 119, 110, 121, 101, 108, 108, 121, 111, 103, 97, 121, 117, 114, 116, 122, 97, 112, 115, 122, 101, 114, 111, 122, 101, 115, 116, 122, 105, 110, 99, 122, 111, 110, 101, 122, 111, 111, 109
>>

\* Character codes the code names: ' ' in split(" ") and join(" ").
SPACE == 32

\* &WORDS[i*4 .. i*4+4]
index_to_byteword(i) ==
    SubSeq(WORDS, i * 4 + 1, i * 4 + 4)

\* fn byteword_to_minimal_string, with the second letter taken for the last.
byteword_to_minimal_string_FirstTwo(word) ==
    <<word[1], word[2]>>

\* format!("{}{}", first, last)
byteword_to_minimal_string(word) ==
    <<word[1], word[Len(word)]>>

\* for i in 0..=255 { lookup.insert(index_to_byteword(i), i) }: a later
\* insert of the same key replaces the earlier one.
WORD_TO_INDEX_LOOKUP ==
    [w \in {index_to_byteword(i) : i \in 0..255} |->
        CHOOSE i \in 0..255 :
            /\ index_to_byteword(i) = w
            /\ \A j \in (i + 1)..255 : index_to_byteword(j) # w]

\* for i in 0..=255 { lookup.insert(minimal(word(i)), word(i)) }
MINIMAL_WORD_TO_WORD_LOOKUP ==
    [m \in {byteword_to_minimal_string(index_to_byteword(i)) : i \in 0..255} |->
        index_to_byteword(
            CHOOSE i \in 0..255 :
                /\ byteword_to_minimal_string(index_to_byteword(i)) = m
                /\ \A j \in (i + 1)..255 :
                       byteword_to_minimal_string(index_to_byteword(j)) # m)]

\* The keys of the two tables, for contains_key and get.
WORD_TO_INDEX_KEYS == DOMAIN WORD_TO_INDEX_LOOKUP
MINIMAL_WORD_KEYS == DOMAIN MINIMAL_WORD_TO_WORD_LOOKUP

\* WORD_TO_INDEX_LOOKUP[word]
byteword_to_index(word) ==
    WORD_TO_INDEX_LOOKUP[word]

\* Bitwise exclusive or of two naturals.
RECURSIVE Xor(_, _)
Xor(a, b) ==
    IF a = 0 THEN b
    ELSE IF b = 0 THEN a
    ELSE ((a + b) % 2) + 2 * Xor(a \div 2, b \div 2)

\* CRC_32_ISO_HDLC: reflected polynomial 0xEDB88320, initial value and final
\* xor 0xFFFFFFFF.  The 32-bit register is kept as <<high 16 bits, low 16
\* bits>>.  One bit of the register update.
Crc32Shift(c) ==
    LET shifted == <<c[1] \div 2, (c[2] \div 2) + (c[1] % 2) * 32768>>
    IN  IF c[2] % 2 = 1
        THEN <<Xor(shifted[1], 60856), Xor(shifted[2], 33568)>>
        ELSE shifted

\* The register after n more bits.
RECURSIVE Crc32Bits(_, _)
Crc32Bits(c, n) ==
    IF n = 0 THEN c ELSE Crc32Bits(Crc32Shift(c), n - 1)

\* The table of the byte-wise algorithm: the register <<0, b>> after 8 bits.
Crc32Table ==
    [b \in 0..255 |-> Crc32Bits(<<0, b>>, 8)]

\* The register after the bytes of data: for each byte, the table's entry
\* for the low byte of the register xor the byte, xor the register shifted
\* right by 8.  (The register is compared with itself so that it is
\* evaluated at every byte and not at the end, when the pending steps would
\* exhaust the stack.)
RECURSIVE Crc32Update(_, _)
Crc32Update(c, data) ==
    IF data = <<>> \/ c # c THEN c
    ELSE LET entry == Crc32Table[Xor(c[2] % 256, Head(data))]
         IN  Crc32Update(<<Xor(entry[1], c[1] \div 256),
                           Xor(entry[2], (c[2] \div 256) + (c[1] % 256) * 256)>>,
                         Tail(data))

\* Crc::<u32>::new(&CRC_32_ISO_HDLC).checksum(bytes).to_be_bytes()
byteword_checksum(data) ==
    LET c  == Crc32Update(<<65535, 65535>>, data)
        hi == 65535 - c[1]
        lo == 65535 - c[2]
    IN  <<hi \div 256, hi % 256, lo \div 256, lo % 256>>

\* Vec<String>::join(sep)
RECURSIVE Join(_, _)
Join(words, sep) ==
    IF words = <<>> THEN <<>>
    ELSE IF Len(words) = 1 THEN words[1]
    ELSE words[1] \o sep \o Join(Tail(words), sep)

\* str::split(sep): the pieces between the separators, empty pieces kept;
\* the empty string gives one empty piece.
RECURSIVE Split(_, _)
Split(s, sep) ==
    IF \E k \in 1..Len(s) : s[k] = sep
    THEN LET k == CHOOSE k \in 1..Len(s) :
                      s[k] = sep /\ \A j \in 1..(k - 1) : s[j] # sep
         IN  <<SubSeq(s, 1, k - 1)>> \o Split(SubSeq(s, k + 1, Len(s)), sep)
    ELSE <<s>>

\* chars.chunks(2): pairs of characters, the last chunk shorter when the
\* length is odd.
RECURSIVE Chunks2(_)
Chunks2(chars) ==
    IF Len(chars) = 0 THEN <<>>
    ELSE IF Len(chars) = 1 THEN <<chars>>
    ELSE <<SubSeq(chars, 1, 2)>> \o Chunks2(SubSeq(chars, 3, Len(chars)))

\* Result values: Ok(value), and Err of a kind naming some text.
Ok(v) == [ok |-> TRUE, kind |-> "Ok", value |-> v]
Err(k, v) == [ok |-> FALSE, kind |-> k, value |-> v]

\* The least element of a non-empty set of integers.
Min(S) == CHOOSE x \in S : \A y \in S : x <= y

\* Collecting the chunks' lookups into a Result keeps the first error.
byteword_minimal_string_to_byteword(input) ==
    LET chunks == Chunks2(input)
        bad    == {k \in 1..Len(chunks) :
                      chunks[k] \notin MINIMAL_WORD_KEYS}
    IN  IF bad # {}
        THEN Err("NotAValidByteword", chunks[Min(bad)])
        ELSE Ok([k \in 1..Len(chunks) |-> MINIMAL_WORD_TO_WORD_LOOKUP[chunks[k]]])

\* pub fn byteword_string_no_checksum
byteword_string_no_checksum(data, min) ==
    LET words == [k \in 1..Len(data) |->
                     IF min
                     THEN byteword_to_minimal_string(index_to_byteword(data[k]))
                     ELSE index_to_byteword(data[k])]
    IN  IF min THEN Join(words, <<>>) ELSE Join(words, <<SPACE>>)

\* byteword_string with the checksum left out.
byteword_string_Unchecked(data, min) ==
    byteword_string_no_checksum(data, min)

\* pub fn byteword_string
byteword_string(data, min) ==
    byteword_string_no_checksum(data \o byteword_checksum(data), min)

\* The decoder with every word resolved through its first and last letter
\* only, as the minimal form is, and the checksum then compared.
byteword_string_to_bytes_ByFirstLast(input, min) ==
    LET pieces == IF min THEN Chunks2(input) ELSE Split(input, SPACE)
        key(p) == IF Len(p) = 0 THEN p ELSE <<p[1], p[Len(p)]>>
        bad    == {k \in 1..Len(pieces) :
                      key(pieces[k]) \notin MINIMAL_WORD_KEYS}
    IN  IF bad # {} THEN Err("NotAValidByteword", pieces[Min(bad)])
        ELSE LET all_bytes == [k \in 1..Len(pieces) |->
                     byteword_to_index(MINIMAL_WORD_TO_WORD_LOOKUP[key(pieces[k])])]
             IN  IF Len(all_bytes) < 5 THEN Err("TooShort", input)
                 ELSE IF SubSeq(all_bytes, Len(all_bytes) - 3, Len(all_bytes))
                         # byteword_checksum(SubSeq(all_bytes, 1, Len(all_bytes) - 4))
                      THEN Err("InvalidChecksum", input)
                      ELSE Ok(SubSeq(all_bytes, 1, Len(all_bytes) - 4))

\* The decoder with the length looked at before the words are.
byteword_string_to_bytes_LengthFirst(input, min) ==
    LET pieces == IF min THEN Chunks2(input) ELSE Split(input, SPACE)
        known  == IF min THEN MINIMAL_WORD_KEYS ELSE WORD_TO_INDEX_KEYS
        bad    == {k \in 1..Len(pieces) : pieces[k] \notin known}
    IN  IF Len(pieces) < 5 THEN Err("TooShort", input)
        ELSE IF bad # {} THEN Err("NotAValidByteword", pieces[Min(bad)])
        ELSE LET all_bytes == [k \in 1..Len(pieces) |->
                     byteword_to_index(IF min THEN MINIMAL_WORD_TO_WORD_LOOKUP[pieces[k]]
                                              ELSE pieces[k])]
                 n == Len(all_bytes)
             IN  IF SubSeq(all_bytes, n - 3, n)
                    # byteword_checksum(SubSeq(all_bytes, 1, n - 4))
                 THEN Err("InvalidChecksum", input)
                 ELSE Ok(SubSeq(all_bytes, 1, n - 4))

\* pub fn byteword_string_to_bytes
byteword_string_to_bytes(input, min) ==
    LET w == IF min THEN byteword_minimal_string_to_byteword(input)
                    ELSE Ok(Split(input, SPACE))
    IN  IF ~w.ok THEN w
        ELSE LET words == w.value
                 bad   == {k \in 1..Len(words) :
                              words[k] \notin WORD_TO_INDEX_KEYS}
             IN  IF bad # {}
                 THEN Err("NotAValidByteword", words[Min(bad)])
                 ELSE LET all_bytes == [k \in 1..Len(words) |->
                                           byteword_to_index(words[k])]
                          n == Len(all_bytes)
                      IN  IF n < 5
                          THEN Err("TooShort", input)
                          ELSE IF SubSeq(all_bytes, n - 3, n)
                                  # byteword_checksum(SubSeq(all_bytes, 1, n - 4))
                               THEN Err("InvalidChecksum", input)
                               ELSE Ok(SubSeq(all_bytes, 1, n - 4))

(***************************************************************************)
(* sskr_shares.rs                                                          *)
(***************************************************************************)

\* sskr::METADATA_SIZE_BYTES, the size of the header of a share.
METADATA_SIZE_BYTES == 5

\* share_metadata with the reserved bits looked at before the group
\* threshold.
share_metadata_ReservedFirst(source, min) ==
    IF Len(source) < METADATA_SIZE_BYTES
    THEN Err("ShareTooShort", byteword_string_no_checksum(source, min))
    ELSE IF source[5] \div 16 # 0
         THEN Err("InvalidReservedBits", byteword_string_no_checksum(source, min))
         ELSE IF (source[3] \div 16) + 1 > (source[3] % 16) + 1
              THEN Err("InvalidGroupThreshold", byteword_string_no_checksum(source, min))
              ELSE Ok(<<source[1] * 256 + source[2],
                        <<source[4] \div 16, (source[3] \div 16) + 1, (source[3] % 16) + 1,
                          source[5] % 16, (source[4] % 16) + 1>>>>)

\* share_metadata with member_index and member_threshold in each other's
\* place in the array returned.
share_metadata_MembersSwapped(source, min) ==
    IF Len(source) < METADATA_SIZE_BYTES
    THEN Err("ShareTooShort", byteword_string_no_checksum(source, min))
    ELSE IF (source[3] \div 16) + 1 > (source[3] % 16) + 1
         THEN Err("InvalidGroupThreshold", byteword_string_no_checksum(source, min))
         ELSE IF source[5] \div 16 # 0
              THEN Err("InvalidReservedBits", byteword_string_no_checksum(source, min))
              ELSE Ok(<<source[1] * 256 + source[2],
                        <<source[4] \div 16, (source[3] \div 16) + 1, (source[3] % 16) + 1,
                          (source[4] % 16) + 1, source[5] % 16>>>>)

\* pub fn share_metadata: the identifier and [group_index, group_threshold,
\* group_count, member_index, member_threshold] of a share, source[k] of the
\* code being source[k + 1] here.  An error names the share, written as
\* bytewords without a checksum.
share_metadata(source, min) ==
    IF Len(source) < METADATA_SIZE_BYTES
    THEN Err("ShareTooShort", byteword_string_no_checksum(source, min))
    ELSE LET group_threshold  == (source[3] \div 16) + 1
             group_count      == (source[3] % 16) + 1
             identifier       == source[1] * 256 + source[2]
             group_index      == source[4] \div 16
             member_threshold == (source[4] % 16) + 1
             reserved         == source[5] \div 16
             member_index     == source[5] % 16
         IN  IF group_threshold > group_count
             THEN Err("InvalidGroupThreshold", byteword_string_no_checksum(source, min))
             ELSE IF reserved # 0
                  THEN Err("InvalidReservedBits", byteword_string_no_checksum(source, min))
                  ELSE Ok(<<identifier,
                            <<group_index, group_threshold, group_count,
                              member_index, member_threshold>>>>)

(***************************************************************************)
(* The envelope (dcbor): tag 309 around a byte string                      *)
(***************************************************************************)

\* CBOR::tagged_value(309, CBOR::byte_string(share)).cbor_data(): the tag
\* head d9 01 35, the byte string head (0x40 + length below 24, 0x58 and
\* the length below 256), the bytes.
cbor_tagged_share(share) ==
    <<217, 1, 53>>
        \o (IF Len(share) < 24 THEN <<64 + Len(share)>> ELSE <<88, Len(share)>>)
        \o share

\* CBOR::from_data(bytes)?.expect_tagged_value(309)?.expect_byte_string()?:
\* the byte string of a well-formed tag-309 item in its shortest encoding,
\* an error for any other data.
cbor_untag_share(data) ==
    IF Len(data) >= 4 /\ SubSeq(data, 1, 3) = <<217, 1, 53>>
    THEN IF data[4] >= 64 /\ data[4] < 88 /\ Len(data) = 4 + (data[4] - 64)
         THEN Ok(SubSeq(data, 5, Len(data)))
         ELSE IF /\ data[4] = 88
                 /\ Len(data) >= 5
                 /\ data[5] >= 24
                 /\ Len(data) = 5 + data[5]
              THEN Ok(SubSeq(data, 6, Len(data)))
              ELSE Err("Cbor", data)
    ELSE Err("Cbor", data)

(***************************************************************************)
(* The secret-sharing engine (sskr): a two-level threshold scheme.  The    *)
(* arithmetic is Shamir's over the integers modulo 17; a secret and the    *)
(* data of a share are one element of that field.                          *)
(***************************************************************************)

FMod(n) == ((n % 17) + 17) % 17

FInv(x) == CHOOSE y \in 1..16 : (x * y) % 17 = 1

RECURSIVE FPow(_, _)
FPow(x, k) == IF k = 0 THEN 1 ELSE FMod(x * FPow(x, k - 1))

RECURSIVE FSum(_, _)
FSum(f, n) == IF n = 0 THEN 0 ELSE FMod(f[n] + FSum(f, n - 1))

RECURSIVE FProd(_, _)
FProd(f, n) == IF n = 0 THEN 1 ELSE FMod(f[n] * FProd(f, n - 1))

\* The value at x of the polynomial with constant term secret and every
\* other coefficient, up to degree threshold - 1, equal to coef.
PolyAt(threshold, secret, coef, x) ==
    FMod(secret + FSum([k \in 1..(threshold - 1) |-> FMod(coef * FPow(x, k))],
                       threshold - 1))

\* The shares of a secret: with threshold 1 each share is the secret,
\* otherwise share j (from 0) is the polynomial's value at j + 1.
shamir_split(threshold, count, secret, coef) ==
    [j \in 1..count |->
        IF threshold = 1 THEN secret ELSE PolyAt(threshold, secret, coef, j)]

\* The secret from the shares ys of the members xs (from 0), by Lagrange
\* interpolation at 0.
shamir_recover(xs, ys) ==
    LET n == Len(xs)
        term(i) ==
            FMod(ys[i] * FProd([j \in 1..n |->
                     IF j = i THEN 1
                     ELSE FMod((0 - (xs[j] + 1))
                               * FInv(FMod((xs[i] + 1) - (xs[j] + 1))))], n))
    IN  IF n = 1 THEN ys[1] ELSE FSum([i \in 1..n |-> term(i)], n)

\* The header of a share.
share_header(identifier, group_threshold, group_count, group_index,
             member_threshold, member_index) ==
    <<identifier \div 256, identifier % 256,
      (group_threshold - 1) * 16 + (group_count - 1),
      group_index * 16 + (member_threshold - 1),
      member_index>>

\* sskr_generate(&spec, &secret): per group, the shares of its members, each
\* a header followed by the share's data.  groups is the sequence of
\* <<member_threshold, member_count>>; identifier and coef are the engine's
\* random draws.
sskr_generate(group_threshold, groups, secret, identifier, coef) ==
    LET group_count   == Len(groups)
        group_secrets == shamir_split(group_threshold, group_count, secret, coef)
    IN  [g \in 1..group_count |->
            LET member_shares ==
                    shamir_split(groups[g][1], groups[g][2], group_secrets[g],
                                 FMod(coef + g))
            IN  [j \in 1..groups[g][2] |->
                    share_header(identifier, group_threshold, group_count, g - 1,
                                 groups[g][1], j - 1)
                        \o <<member_shares[j]>>]]

\* The engine's own reading of one share, which has the layout
\* share_metadata reads; not ok when the share is malformed.
EngineShare(source) ==
    LET meta == share_metadata(source, FALSE)
    IN  IF ~meta.ok \/ Len(source) # METADATA_SIZE_BYTES + 1
        THEN [ok |-> FALSE]
        ELSE [ok |-> TRUE,
              identifier       |-> meta.value[1],
              group_index      |-> meta.value[2][1],
              group_threshold  |-> meta.value[2][2],
              group_count      |-> meta.value[2][3],
              member_index     |-> meta.value[2][4],
              member_threshold |-> meta.value[2][5],
              value            |-> source[METADATA_SIZE_BYTES + 1]]

\* The indexes, in shares, of the shares of group g the engine keeps: the
\* first member_threshold of them.
EngineKept(parsed, g) ==
    LET of_group == {i \in 1..Len(parsed) : parsed[i].group_index = g}
        mt       == parsed[Min(of_group)].member_threshold
    IN  {i \in of_group : Cardinality({k \in of_group : k < i}) < mt}

\* The elements of a set of integers in increasing order.
RECURSIVE Sorted(_)
Sorted(S) == IF S = {} THEN <<>> ELSE <<Min(S)>> \o Sorted(S \ {Min(S)})

\* sskr_combine(&shares): the secret, or an error when the shares are
\* malformed, do not agree on the identifier, the group threshold, the
\* group count or a group's member threshold, repeat a member, or hold
\* fewer than group_threshold groups with member_threshold shares each.
\* The groups are taken in the order of their first share.
sskr_combine(shares) ==
    LET parsed == [i \in 1..Len(shares) |-> EngineShare(shares[i])]
        n      == Len(shares)
    IN  IF n = 0 THEN Err("EmptyShareSet", <<>>)
        ELSE IF \E i \in 1..n : ~parsed[i].ok THEN Err("ShareInvalid", <<>>)
        ELSE IF \E i \in 2..n :
                    \/ parsed[i].identifier # parsed[1].identifier
                    \/ parsed[i].group_threshold # parsed[1].group_threshold
                    \/ parsed[i].group_count # parsed[1].group_count
             THEN Err("ShareSetInvalid", <<>>)
        ELSE IF \E i, k \in 1..n :
                    /\ parsed[i].group_index = parsed[k].group_index
                    /\ parsed[i].member_threshold # parsed[k].member_threshold
             THEN Err("MemberThresholdInvalid", <<>>)
        ELSE IF \E i, k \in 1..n :
                    /\ i # k
                    /\ parsed[i].group_index = parsed[k].group_index
                    /\ parsed[i].member_index = parsed[k].member_index
             THEN Err("DuplicateMemberIndex", <<>>)
        ELSE LET first == {i \in 1..n : \A k \in 1..(i - 1) :
                              parsed[k].group_index # parsed[i].group_index}
                 full  == {i \in first :
                              Cardinality(EngineKept(parsed, parsed[i].group_index))
                                  >= parsed[i].member_threshold}
                 gt    == parsed[1].group_threshold
                 used  == {i \in full : Cardinality({k \in full : k < i}) < gt}
                 order == Sorted(used)
                 group_secret(i) ==
                     LET kept == Sorted(EngineKept(parsed, parsed[i].group_index))
                     IN  shamir_recover([k \in 1..Len(kept) |-> parsed[kept[k]].member_index],
                                        [k \in 1..Len(kept) |-> parsed[kept[k]].value])
             IN  IF Cardinality(used) < gt THEN Err("NotEnoughGroups", <<>>)
                 ELSE Ok(<<shamir_recover(
                              [k \in 1..gt |-> parsed[order[k]].group_index],
                              [k \in 1..gt |-> group_secret(order[k])])>>)

(***************************************************************************)
(* State                                                                   *)
(***************************************************************************)
VARIABLES
    \* One use of the codec: the bytes handed to byteword_string with the
    \* flag minimal, the text handed to byteword_string_to_bytes with the
    \* flag decode_minimal (the encoder's output, possibly damaged on the
    \* way), what the decoder returned, and where the use stands.
    bytes, minimal, input, damage, decode_minimal, decoded, cpc,
    \* One split: the group spec as the sequence of the <<M, N>> of its
    \* "<M>of<N>" tokens, the group threshold, the mnemonic, the engine's
    \* random draws, and what split returned (per group, the share texts).
    spec, group_threshold, mnemonic, engine_random, groups,
    \* One call of recover: its argument lines (and which tampering, if any,
    \* the lines underwent before the call), its locals, the number of calls
    \* of sskr_combine it made, its position and its return value.  visited
    \* is how far the iteration over shares_by_group has come.
    lines, tampered, shares, share_ids, share_meta, shares_by_group, visited,
    recoverable_groups, shares_for_recovery, secret, combine_calls, pc, result,
    \* The share list an earlier call of recover on the same lines handed to
    \* sskr_combine (<<>> when there was no earlier call).
    handed_before,
    \* One call of share_metadata: its argument source (the flag is minimal),
    \* its return value, and whether it was made.
    source, metadata, mpc

codec_vars == <<bytes, input, damage, decode_minimal, decoded, cpc>>

metadata_vars == <<source, metadata, mpc>>

split_vars == <<spec, group_threshold, mnemonic, engine_random, groups>>

recover_vars ==
    <<lines, tampered, shares, share_ids, share_meta, shares_by_group, visited,
      recoverable_groups, shares_for_recovery, secret, combine_calls, pc, result,
      handed_before>>

vars == <<minimal, codec_vars, metadata_vars, metadata_vars, split_vars, recover_vars>>

\* The value of a result not yet computed.
NoResult == [ok |-> FALSE, kind |-> "None", value |-> <<>>]

\* The codec, the split, recover and share_metadata at rest.
CodecIdle ==
    /\ bytes = <<>>
    /\ input = <<>>
    /\ damage = "none"
    /\ decode_minimal = FALSE
    /\ decoded = NoResult
    /\ cpc = "idle"

SplitIdle ==
    /\ spec = <<>>
    /\ group_threshold = 0
    /\ mnemonic = <<>>
    /\ engine_random = <<>>
    /\ groups = NoResult

RecoverIdle ==
    /\ lines = <<>>
    /\ tampered = "none"
    /\ shares = <<>>
    /\ share_ids = <<>>
    /\ share_meta = <<>>
    /\ shares_by_group = <<>>
    /\ visited = {}
    /\ recoverable_groups = <<>>
    /\ shares_for_recovery = <<>>
    /\ secret = <<>>
    /\ combine_calls = 0
    /\ pc = "idle"
    /\ result = NoResult
    /\ handed_before = <<>>

MetadataIdle ==
    /\ source = <<>>
    /\ metadata = NoResult
    /\ mpc = "idle"

(***************************************************************************)
(* The codec in use: encode, damage in transit, decode                     *)
(***************************************************************************)

\* The longest byte sequence encoded.
MaxBytesLen == 2

\* The byte values the encoded sequences are made of (their checksum bytes
\* range over other values).
ByteSample == {0, 1, 97, 128, 254, 255}

\* The sequences over S of length 1..n.
SeqsUpTo(S, n) == UNION {[1..k -> S] : k \in 1..n}

CodecInit ==
    /\ bytes \in SeqsUpTo(ByteSample, MaxBytesLen)
    /\ minimal \in BOOLEAN
    /\ input = <<>>
    /\ damage = "none"
    /\ decode_minimal = FALSE
    /\ decoded = NoResult
    /\ cpc = "start"
    /\ MetadataIdle
    /\ SplitIdle
    /\ RecoverIdle

\* byteword_string(bytes, minimal)
Encode ==
    /\ cpc = "start"
    /\ input' = byteword_string(bytes, minimal)
    /\ cpc' = "encoded"
    /\ UNCHANGED <<bytes, minimal, damage, decode_minimal, decoded, metadata_vars, split_vars, recover_vars>>

\* Character code c with bit b flipped.
FlipBitOf(c, b) ==
    IF (c \div (2 ^ b)) % 2 = 1 THEN c - 2 ^ b ELSE c + 2 ^ b

\* One bit of one character of the text is flipped.
FlipBit ==
    /\ cpc = "encoded"
    /\ \E k \in 1..Len(input), b \in 0..7 :
           input' = [input EXCEPT ![k] = FlipBitOf(input[k], b)]
    /\ damage' = "flip"
    /\ cpc' = "damaged"
    /\ UNCHANGED <<bytes, minimal, decode_minimal, decoded, metadata_vars, split_vars, recover_vars>>

\* The text is cut short.
Truncate ==
    /\ cpc = "encoded"
    /\ \E n \in 0..(Len(input) - 1) : input' = SubSeq(input, 1, n)
    /\ damage' = "cut"
    /\ cpc' = "damaged"
    /\ UNCHANGED <<bytes, minimal, decode_minimal, decoded, metadata_vars, split_vars, recover_vars>>

\* One word of the text is replaced by another word of the table.
ReplaceWord ==
    /\ cpc = "encoded"
    /\ \E k \in 1..(Len(bytes) + 4), b \in ByteSample :
           LET all == bytes \o byteword_checksum(bytes)
           IN  /\ all[k] # b
               /\ input' = byteword_string_no_checksum([all EXCEPT ![k] = b], minimal)
    /\ damage' = "word"
    /\ cpc' = "damaged"
    /\ UNCHANGED <<bytes, minimal, decode_minimal, decoded, metadata_vars, split_vars, recover_vars>>

\* byteword_string_to_bytes(input, m): the received text is decoded with
\* the flag it was written with; an undamaged text also with the other one.
Decode ==
    /\ cpc \in {"encoded", "damaged"}
    /\ \E m \in BOOLEAN :
           /\ m = minimal \/ damage = "none"
           /\ decode_minimal' = m
           /\ decoded' = byteword_string_to_bytes(input, m)
    /\ cpc' = "decoded"
    /\ UNCHANGED <<bytes, minimal, input, damage, metadata_vars, split_vars, recover_vars>>

CodecNext ==
    \/ Encode
    \/ FlipBit
    \/ Truncate
    \/ ReplaceWord
    \/ Decode

SpecCodec == CodecInit /\ [][CodecNext]_vars

(***************************************************************************)
(* split.rs                                                                *)
(***************************************************************************)

\* The most groups in a group spec, and the most lines handed to recover.
MaxGroups == 2
MaxLines == 3

\* The "<M>of<N>" tokens the group specs are made of, as <<M, N>>: two
\* that parse_spec refuses among them.
GroupSpecSample == {<<1, 1>>, <<2, 3>>, <<1, 2>>, <<3, 2>>}

\* The entropy of the mnemonics split, and the engine's random draws
\* <<identifier, coefficient>>.
EntropySample == {<<5>>}
RandomSample == {<<4660, 3>>}

\* Mnemonic::from_entropy and Mnemonic::entropy: BIP-39 pairs each entropy
\* of a valid length with one phrase; a mnemonic is written as the record
\* of its entropy, and an entropy is one field element here.
Mnemonic_from_entropy(data) ==
    IF Len(data) = 1 THEN Ok([entropy |-> data]) ELSE Err("BadEntropyLength", data)

\* fn parse_spec, on the numbers of the tokens: the first token with M > N,
\* or with M = 1 and N > 1, makes it refuse the spec.  The sampled specs
\* and group thresholds are within the engine's limits (GroupSpec::new,
\* Spec::new).
parse_spec(parts, gt) ==
    LET bad == {k \in 1..Len(parts) :
                   \/ parts[k][1] > parts[k][2]
                   \/ parts[k][1] = 1 /\ parts[k][2] > 1}
    IN  IF bad # {}
        THEN Err("InvalidGroup", parts[Min(bad)])
        ELSE Ok(<<gt, parts>>)

\* fn to_bytewords: each share in its envelope, as bytewords.
to_bytewords(gs, min) ==
    [g \in 1..Len(gs) |->
        [j \in 1..Len(gs[g]) |-> byteword_string(cbor_tagged_share(gs[g][j]), min)]]

\* pub fn split
split(parts, gt, mn, random, min) ==
    LET sskr_spec == parse_spec(parts, gt)
    IN  IF ~sskr_spec.ok THEN sskr_spec
        ELSE Ok(to_bytewords(
                    sskr_generate(gt, parts, mn.entropy[1], random[1], random[2]),
                    min))

SplitInit ==
    /\ spec \in SeqsUpTo(GroupSpecSample, MaxGroups)
    /\ group_threshold \in 1..Len(spec)
    /\ mnemonic \in {[entropy |-> e] : e \in EntropySample}
    /\ engine_random \in RandomSample
    /\ minimal \in BOOLEAN
    /\ groups = NoResult
    /\ CodecIdle
    /\ MetadataIdle
    /\ RecoverIdle

\* split::split(spec, group_threshold, phrase, minimal)
DoSplit ==
    /\ pc = "idle"
    /\ groups = NoResult
    /\ groups' = split(spec, group_threshold, mnemonic, engine_random, minimal)
    /\ UNCHANGED <<minimal, codec_vars, metadata_vars, spec, group_threshold,
                   mnemonic, engine_random, recover_vars>>

(***************************************************************************)
(* recover.rs                                                              *)
(***************************************************************************)

\* All the share texts of the split, group after group.
RECURSIVE Flatten(_)
Flatten(gs) == IF gs = <<>> THEN <<>> ELSE Head(gs) \o Flatten(Tail(gs))

\* The file handed to recover: up to MaxLines of the split's share texts,
\* none twice, in any order.
ChooseLines ==
    /\ pc = "idle"
    /\ groups.ok
    /\ LET pool == Flatten(groups.value)
       IN  \E k \in 0..MaxLines :
               \E pick \in [1..k -> 1..Len(pool)] :
                   /\ \A a, b \in 1..k : a # b => pick[a] # pick[b]
                   /\ lines' = [a \in 1..k |-> pool[pick[a]]]
    /\ pc' = "Collecting"
    /\ UNCHANGED <<minimal, codec_vars, metadata_vars, split_vars, handed_before,
                   tampered, shares, share_ids,
                   share_meta, shares_by_group, visited, recoverable_groups,
                   shares_for_recovery, secret, combine_calls, result>>

\* The ways one line is tampered with before recover reads it.
TamperKinds ==
    {"identifier", "group_count", "group_threshold", "group_index",
     "member_threshold", "reserved", "short", "tag", "word"}

\* A share text with its payload, its envelope or its words changed; all
\* but "word" carry a correct checksum.
TamperLine(line, kind, min) ==
    LET data    == byteword_string_to_bytes(line, min).value
        payload == cbor_untag_share(data).value
        bump(k, d) == [payload EXCEPT ![k] = (payload[k] + d) % 256]
        wrap(p) == byteword_string(cbor_tagged_share(p), min)
    IN  CASE kind = "identifier"       -> wrap(bump(2, 1))
          [] kind = "group_count"      -> wrap(bump(3, 1))
          [] kind = "group_threshold"  ->
                 wrap([payload EXCEPT ![3] = ((payload[3] % 16) + 1) * 16 + (payload[3] % 16)])
          [] kind = "group_index"      -> wrap(bump(4, 16))
          [] kind = "member_threshold" -> wrap(bump(4, 1))
          [] kind = "reserved"         -> wrap(bump(5, 16))
          [] kind = "short"            -> wrap(SubSeq(payload, 1, METADATA_SIZE_BYTES - 1))
          [] kind = "tag"              ->
                 byteword_string([data EXCEPT ![3] = 52], min)
          [] kind = "word"             ->
                 byteword_string_no_checksum(
                     [(data \o byteword_checksum(data)) EXCEPT ![5] = (data[5] + 1) % 256],
                     min)

\* One line of the file is tampered with before recover is first called
\* on it.
Tamper ==
    /\ pc = "Collecting"
    /\ tampered = "none"
    /\ handed_before = <<>>
    /\ \E i \in 1..Len(lines), kind \in TamperKinds :
           /\ lines' = [lines EXCEPT ![i] = TamperLine(lines[i], kind, minimal)]
           /\ tampered' = kind
    /\ UNCHANGED <<minimal, codec_vars, metadata_vars, split_vars, handed_before,
                   shares, share_ids, share_meta,
                   shares_by_group, visited, recoverable_groups,
                   shares_for_recovery, secret, combine_calls, pc, result>>

\* A step of recover that returns an error.
Fail(err) ==
    /\ result' = err
    /\ pc' = "Failed"

\* Lines 12-24: every line from bytewords to the share in its envelope; the
\* first line that does not decode ends recover.
DecodeLine(line, min) ==
    LET data == byteword_string_to_bytes(line, min)
    IN  IF ~data.ok THEN data ELSE cbor_untag_share(data.value)

DecodeLines ==
    /\ pc = "Collecting"
    /\ LET got == [i \in 1..Len(lines) |-> DecodeLine(lines[i], minimal)]
           bad == {i \in 1..Len(lines) : ~got[i].ok}
       IN  IF bad # {}
           THEN /\ Fail(got[Min(bad)])
                /\ UNCHANGED shares
           ELSE /\ shares' = [i \in 1..Len(lines) |-> got[i].value]
                /\ pc' = "Decoded"
                /\ UNCHANGED result
    /\ UNCHANGED <<minimal, codec_vars, metadata_vars, split_vars, handed_before,
                   lines, tampered, share_ids,
                   share_meta, shares_by_group, visited, recoverable_groups,
                   shares_for_recovery, secret, combine_calls>>

\* Lines 26-33: the metadata of every share; the first share that has none
\* ends recover.
ParseMetadata ==
    /\ pc = "Decoded"
    /\ LET got == [i \in 1..Len(shares) |-> share_metadata(shares[i], minimal)]
           bad == {i \in 1..Len(shares) : ~got[i].ok}
       IN  IF bad # {}
           THEN /\ Fail(got[Min(bad)])
                /\ UNCHANGED <<share_ids, share_meta>>
           ELSE /\ share_ids' = [i \in 1..Len(shares) |-> got[i].value[1]]
                /\ share_meta' = [i \in 1..Len(shares) |-> got[i].value[2]]
                /\ pc' = "Parsed"
                /\ UNCHANGED result
    /\ UNCHANGED <<minimal, codec_vars, metadata_vars, split_vars, handed_before,
                   lines, tampered, shares,
                   shares_by_group, visited, recoverable_groups,
                   shares_for_recovery, secret, combine_calls>>

\* Line 38 with identifier = share_ids[0]
IdentifiersMismatch(ids) ==
    \E i \in 1..Len(ids) : ids[i] # ids[1]

\* Lines 46-48, with only the group threshold compared.
GroupParamsMismatch_ThresholdOnly(meta) ==
    \E i \in 1..Len(meta) : meta[i][2] # meta[1][2]

\* Lines 46-48 with group_threshold = share_meta[0][1] and group_count =
\* share_meta[0][2]
GroupParamsMismatch(meta) ==
    \E i \in 1..Len(meta) : meta[i][2] # meta[1][2] \/ meta[i][3] # meta[1][3]

\* Lines 35-51: share_ids[0] and share_meta[0] are read, which aborts the
\* program when there is no share; then every share is compared with the
\* first.  meta[k] of the code is meta[k + 1] here.
CheckShares ==
    /\ pc = "Parsed"
    /\ IF Len(share_ids) = 0
       THEN /\ result' = Err("Panic", <<>>)
            /\ pc' = "Aborted"
       ELSE IF IdentifiersMismatch(share_ids)
            THEN Fail(Err("MismatchedIdentifiers", <<>>))
            ELSE IF GroupParamsMismatch(share_meta)
                 THEN Fail(Err("MismatchedGroupThresholdOrCount", <<>>))
                 ELSE /\ pc' = "MetadataValidated"
                      /\ UNCHANGED result
    /\ UNCHANGED <<minimal, codec_vars, metadata_vars, split_vars, handed_before,
                   lines, tampered, shares,
                   share_ids, share_meta, shares_by_group, visited,
                   recoverable_groups, shares_for_recovery, secret, combine_calls>>

\* Lines 53-66: { group_num => the <<index, share>> of its shares, in the
\* order of the lines }.
GroupShares ==
    /\ pc = "MetadataValidated"
    /\ shares_by_group' =
           [g \in {share_meta[i][1] : i \in 1..Len(shares)} |->
               LET of_group == Sorted({i \in 1..Len(shares) : share_meta[i][1] = g})
               IN  [k \in 1..Len(of_group) |-> <<of_group[k], shares[of_group[k]]>>]]
    /\ pc' = "Grouped"
    /\ UNCHANGED <<minimal, codec_vars, metadata_vars, split_vars, handed_before,
                   lines, tampered, shares,
                   share_ids, share_meta, visited, recoverable_groups,
                   shares_for_recovery, secret, combine_calls, result>>

\* Lines 74-77, with the group count read for the member threshold.
MemberThresholdsMismatch_WrongField(group_shares, meta) ==
    \E k \in 1..Len(group_shares) :
        meta[group_shares[k][1]][3] # meta[group_shares[1][1]][3]

\* Lines 74-77 with member_threshold = share_meta[shares[0].0][4]
MemberThresholdsMismatch(group_shares, meta) ==
    \E k \in 1..Len(group_shares) :
        meta[group_shares[k][1]][5] # meta[group_shares[1][1]][5]

\* Lines 71-89, one turn of the loop: the hash map hands out its groups in
\* an order of its own; a group whose shares differ in member threshold
\* ends recover, a group with enough shares is noted as recoverable.
InspectGroup ==
    /\ pc = "Grouped"
    /\ \E group_num \in (DOMAIN shares_by_group) \ visited :
           LET group_shares     == shares_by_group[group_num]
               member_threshold == share_meta[group_shares[1][1]][5]
           IN  IF MemberThresholdsMismatch(group_shares, share_meta)
               THEN /\ Fail(Err("MismatchedMemberThresholds", <<group_num + 1>>))
                    /\ UNCHANGED <<visited, recoverable_groups>>
               ELSE /\ visited' = visited \cup {group_num}
                    /\ recoverable_groups' =
                           IF Len(group_shares) >= member_threshold
                           THEN Append(recoverable_groups, group_num)
                           ELSE recoverable_groups
                    /\ UNCHANGED <<pc, result>>
    /\ UNCHANGED <<minimal, codec_vars, metadata_vars, split_vars, handed_before,
                   lines, tampered, shares,
                   share_ids, share_meta, shares_by_group, shares_for_recovery,
                   secret, combine_calls>>

\* Lines 98-101, with the group indexes as they are.
GroupNumbers_ZeroBased(recoverable) ==
    recoverable

\* Lines 98-101: the recoverable groups, counted from 1
GroupNumbers(recoverable) ==
    [k \in 1..Len(recoverable) |-> recoverable[k] + 1]

\* Line 92, with one group fewer asked for.
NotEnoughGroups_OffByOne(recoverable, gt) ==
    Len(recoverable) < gt - 1

\* Line 92: recoverable_groups.len() < group_threshold
NotEnoughGroups(recoverable, gt) ==
    Len(recoverable) < gt

\* Lines 91-103, after the loop: too few recoverable groups end recover
\* with the numbers of those there are.
CheckEnoughGroups ==
    /\ pc = "Grouped"
    /\ visited = DOMAIN shares_by_group
    /\ IF NotEnoughGroups(recoverable_groups, share_meta[1][2])
       THEN Fail(Err("NotEnoughGroups",
                     <<share_meta[1][2], Len(recoverable_groups),
                       GroupNumbers(recoverable_groups)>>))
       ELSE /\ pc' = "Recoverable"
            /\ UNCHANGED result
    /\ UNCHANGED <<minimal, codec_vars, metadata_vars, split_vars, handed_before,
                   lines, tampered, shares,
                   share_ids, share_meta, shares_by_group, visited,
                   recoverable_groups, shares_for_recovery, secret, combine_calls>>

\* The shares of the groups gs, group after group, without their indexes.
RECURSIVE SharesOfGroups(_, _)
SharesOfGroups(by_group, gs) ==
    IF gs = <<>> THEN <<>>
    ELSE [k \in 1..Len(by_group[Head(gs)]) |-> by_group[Head(gs)][k][2]]
             \o SharesOfGroups(by_group, Tail(gs))

\* recoverable_groups.iter().take(group_threshold): the first
\* group_threshold of them, or all when there are fewer.
TakeGroups(recoverable, gt) ==
    SubSeq(recoverable, 1, Min({gt, Len(recoverable)}))

\* Lines 105-118
GatherShares ==
    /\ pc = "Recoverable"
    /\ shares_for_recovery' =
           SharesOfGroups(shares_by_group,
                          TakeGroups(recoverable_groups, share_meta[1][2]))
    /\ pc' = "Gathered"
    /\ UNCHANGED <<minimal, codec_vars, metadata_vars, split_vars, handed_before,
                   lines, tampered, shares,
                   share_ids, share_meta, shares_by_group, visited,
                   recoverable_groups, secret, combine_calls, result>>

\* Lines 120-121
Combine ==
    /\ pc = "Gathered"
    /\ combine_calls' = combine_calls + 1
    /\ LET got == sskr_combine(shares_for_recovery)
       IN  IF ~got.ok
           THEN /\ Fail(Err("CombineError", <<got.kind>>))
                /\ UNCHANGED secret
           ELSE /\ secret' = got.value
                /\ pc' = "Combined"
                /\ UNCHANGED result
    /\ UNCHANGED <<minimal, codec_vars, metadata_vars, split_vars, handed_before,
                   lines, tampered, shares,
                   share_ids, share_meta, shares_by_group, visited,
                   recoverable_groups, shares_for_recovery>>

\* Mnemonic::from_entropy(secret.data(), ...) of lines 123-129
MnemonicOfSecret(s) ==
    LET got == Mnemonic_from_entropy(s)
    IN  IF got.ok THEN got ELSE Err("UnableToMakeMnemonic", s)

\* Lines 123-129, with the data of a share taken for the secret.
MakeMnemonic_FromShare ==
    /\ pc = "Combined"
    /\ result' = MnemonicOfSecret(SubSeq(shares_for_recovery[1], METADATA_SIZE_BYTES + 1,
                                         Len(shares_for_recovery[1])))
    /\ pc' = IF result'.ok THEN "MnemonicReady" ELSE "Failed"
    /\ UNCHANGED <<minimal, codec_vars, metadata_vars, split_vars, handed_before,
                   lines, tampered, shares,
                   share_ids, share_meta, shares_by_group, visited,
                   recoverable_groups, shares_for_recovery, secret, combine_calls>>

\* Lines 123-129
MakeMnemonic ==
    /\ pc = "Combined"
    /\ result' = MnemonicOfSecret(secret)
    /\ pc' = IF result'.ok THEN "MnemonicReady" ELSE "Failed"
    /\ UNCHANGED <<minimal, codec_vars, metadata_vars, split_vars, handed_before,
                   lines, tampered, shares,
                   share_ids, share_meta, shares_by_group, visited,
                   recoverable_groups, shares_for_recovery, secret, combine_calls>>

RecoverNext ==
    \/ DoSplit
    \/ ChooseLines
    \/ Tamper
    \/ DecodeLines
    \/ ParseMetadata
    \/ CheckShares
    \/ GroupShares
    \/ InspectGroup
    \/ CheckEnoughGroups
    \/ GatherShares
    \/ Combine
    \/ MakeMnemonic

SpecRecover == SplitInit /\ [][RecoverNext]_vars

(***************************************************************************)
(* recover called a second time on the same lines                          *)
(***************************************************************************)

\* The program is run again on the file it recovered a mnemonic from: a
\* new call of recover with the same lines and fresh locals (among them a
\* new hash map, with an iteration order of its own).  What the first call
\* handed to sskr_combine is kept for comparison.
RunAgain ==
    /\ pc = "MnemonicReady"
    /\ handed_before = <<>>
    /\ handed_before' = shares_for_recovery
    /\ shares' = <<>>
    /\ share_ids' = <<>>
    /\ share_meta' = <<>>
    /\ shares_by_group' = <<>>
    /\ visited' = {}
    /\ recoverable_groups' = <<>>
    /\ shares_for_recovery' = <<>>
    /\ secret' = <<>>
    /\ combine_calls' = 0
    /\ pc' = "Collecting"
    /\ result' = NoResult
    /\ UNCHANGED <<minimal, codec_vars, metadata_vars, split_vars, lines, tampered>>

RerunNext ==
    \/ RecoverNext
    \/ RunAgain

SpecRerun == SplitInit /\ [][RerunNext]_vars

(***************************************************************************)
(* share_metadata in use on arbitrary payloads                             *)
(***************************************************************************)

\* The longest payload handed to share_metadata.
MaxPayloadLen == 6

\* The byte values the payloads are made of: as byte 2, 0 is 1 of 1 groups,
\* 1 is 1 of 2, 16 is 2 of 1 and 255 is 16 of 16; as byte 4, 16 and 255
\* have reserved bits set.
PayloadByteSample == {0, 1, 16, 255}

MetadataInit ==
    /\ source \in UNION {[1..k -> PayloadByteSample] : k \in 0..MaxPayloadLen}
    /\ minimal \in BOOLEAN
    /\ metadata = NoResult
    /\ mpc = "start"
    /\ CodecIdle
    /\ SplitIdle
    /\ RecoverIdle

\* share_metadata(source, minimal)
ParseShare ==
    /\ mpc = "start"
    /\ metadata' = share_metadata(source, minimal)
    /\ mpc' = "done"
    /\ UNCHANGED <<minimal, source, codec_vars, split_vars, recover_vars>>

SpecMetadata == MetadataInit /\ [][ParseShare]_vars

(***************************************************************************)
(* Properties of the codec                                                 *)
(***************************************************************************)

\* C3: decoding, with the flag m, the text byteword_string(b, m) made of a
\* byte sequence b of length >= 1 returns Ok(b), for both values of m.
RoundTrip ==
    (cpc = "decoded" /\ damage = "none" /\ decode_minimal = minimal)
        => decoded = Ok(bytes)

\* An undamaged minimal-form text of two bytes has been decoded.
RoundTripWitness ==
    /\ cpc = "decoded"
    /\ damage = "none"
    /\ minimal
    /\ decode_minimal
    /\ Len(bytes) = 2
    /\ decoded.ok

\* The tokens of a text, stated on the positions of the text: in minimal
\* form the pairs of characters and a trailing single character, in full
\* form the pieces between the spaces.
TokensOf(text, min) ==
    IF min
    THEN [k \in 1..((Len(text) + 1) \div 2) |->
             [j \in 1..(IF 2 * k <= Len(text) THEN 2 ELSE 1) |-> text[2 * k - 2 + j]]]
    ELSE LET spaces == {p \in 1..Len(text) : text[p] = SPACE}
             \* the position of the j-th space; 0 before the first token and
             \* Len(text) + 1 after the last
             at(j) == IF j = 0 THEN 0
                      ELSE IF j > Cardinality(spaces) THEN Len(text) + 1
                      ELSE CHOOSE p \in spaces :
                               Cardinality({q \in spaces : q < p}) = j - 1
         IN  [k \in 1..(Cardinality(spaces) + 1) |->
                 [j \in 1..(at(k) - at(k - 1) - 1) |-> text[at(k - 1) + j]]]

\* Whether token t is in the word table, in the form the flag asks for.
InWordTable(t, min) ==
    \E i \in 0..255 :
        LET w == index_to_byteword(i)
        IN  t = (IF min THEN <<w[1], w[4]>> ELSE w)

\* The byte a token of the word table stands for.
ByteOf(t, min) ==
    CHOOSE i \in 0..255 :
        LET w == index_to_byteword(i)
        IN  t = (IF min THEN <<w[1], w[4]>> ELSE w)

\* C7: byteword_string_to_bytes returns the 'unknown word' error naming the
\* first token that is not in the word table when there is one; otherwise
\* 'too short' when there are fewer than 5 tokens; otherwise 'checksum
\* invalid' when the last 4 bytes are not the CRC-32 of the bytes before
\* them; otherwise Ok with the bytes before the checksum.
DecodeOutcome ==
    cpc = "decoded" =>
        LET tokens  == TokensOf(input, decode_minimal)
            unknown == {k \in 1..Len(tokens) : ~InWordTable(tokens[k], decode_minimal)}
            n       == Len(tokens)
        IN  IF unknown # {}
            THEN /\ decoded.kind = "NotAValidByteword"
                 /\ \E k \in unknown :
                        /\ \A j \in unknown : k <= j
                        /\ decoded.value = tokens[k]
            ELSE LET all == [k \in 1..n |-> ByteOf(tokens[k], decode_minimal)]
                 IN  IF n < 5
                     THEN decoded.kind = "TooShort"
                     ELSE IF SubSeq(all, n - 3, n) # byteword_checksum(SubSeq(all, 1, n - 4))
                          THEN decoded.kind = "InvalidChecksum"
                          ELSE decoded = Ok(SubSeq(all, 1, n - 4))

\* A minimal-form text with a trailing single character, of at least 5
\* chunks, has been decoded and refused for that character.
DecodeOutcomeWitness ==
    /\ cpc = "decoded"
    /\ decode_minimal
    /\ Len(input) % 2 = 1
    /\ Len(input) >= 9
    /\ decoded.kind = "NotAValidByteword"
    /\ Len(decoded.value) = 1

\* C8: a full-form text with one bit flipped is refused by the decoder,
\* with the checksum error or the unknown-word error.
BitFlipDetected ==
    (cpc = "decoded" /\ damage = "flip" /\ ~minimal /\ ~decode_minimal)
        => decoded.kind \in {"InvalidChecksum", "NotAValidByteword"}

\* A full-form text with one flipped bit has been decoded.
BitFlipDetectedWitness ==
    /\ cpc = "decoded"
    /\ damage = "flip"
    /\ ~minimal
    /\ ~decode_minimal
    /\ ~decoded.ok
    /\ input # byteword_string(bytes, FALSE)

\* The minimal forms of the 256 words are pairwise distinct, the reverse
\* lookup table has 256 entries and maps the minimal form of each word back
\* to that word.
MinimalTableSound ==
    /\ \A i, j \in 0..255 :
           i # j => byteword_to_minimal_string(index_to_byteword(i))
                        # byteword_to_minimal_string(index_to_byteword(j))
    /\ Cardinality(DOMAIN MINIMAL_WORD_TO_WORD_LOOKUP) = 256
    /\ \A i \in 0..255 :
           MINIMAL_WORD_TO_WORD_LOOKUP[byteword_to_minimal_string(index_to_byteword(i))]
               = index_to_byteword(i)

\* C10: at every stage of a use of the codec, the 256 minimal forms (first
\* letter followed by last letter of each word) are pairwise distinct, and
\* the minimal-form reverse lookup table has 256 entries and maps each
\* minimal form back to the word it was derived from.
MinimalFormsDistinct ==
    cpc \in {"start", "encoded", "damaged", "decoded"} => MinimalTableSound

\* A minimal-form text has been resolved through the reverse lookup table.
MinimalFormsDistinctWitness ==
    /\ cpc = "decoded"
    /\ minimal
    /\ decode_minimal
    /\ damage = "word"
    /\ decoded.kind = "InvalidChecksum"

(***************************************************************************)
(* Properties of recover                                                   *)
(***************************************************************************)

\* recover has returned, or aborted.
Returned == pc \in {"MnemonicReady", "Failed", "Aborted"}

\* The lines are shares of the split, as split returned them.
Untampered == tampered = "none"

\* The groups of the split (from 1) of which the lines hold at least
\* member_threshold shares.
SatisfiedGroups ==
    {g \in 1..Len(spec) :
        Cardinality({i \in 1..Len(lines) :
                        \E j \in 1..Len(groups.value[g]) : lines[i] = groups.value[g][j]})
            >= spec[g][1]}

\* C1: on shares of one split, none repeated, in any order, recover
\* succeeds if and only if the lines hold, for at least group_threshold
\* groups, at least member_threshold shares of each; on every other subset
\* it fails with the 'not enough groups' error or a mismatch error.
ThresholdAlgebra ==
    (Returned /\ Untampered) =>
        IF Cardinality(SatisfiedGroups) >= group_threshold
        THEN result.ok
        ELSE result.kind \in {"NotEnoughGroups", "MismatchedIdentifiers",
                              "MismatchedGroupThresholdOrCount",
                              "MismatchedMemberThresholds"}

\* C2: when recover succeeds on shares that all come from one split, it
\* returns the mnemonic that was split.
RecoveredIsSplit ==
    (pc = "MnemonicReady" /\ Untampered) => result = Ok(mnemonic)

\* recover has succeeded with more recoverable groups than the group
\* threshold asks for, one of them holding a share beyond its threshold's.
RecoveredIsSplitWitness ==
    /\ pc = "MnemonicReady"
    /\ Untampered
    /\ result.ok
    /\ Len(recoverable_groups) > group_threshold
    /\ Len(lines) = 3

\* Every line has been decoded and the metadata of every share parsed, and
\* the cross-share checks have been made.
CrossChecked ==
    /\ Len(lines) >= 1
    /\ Len(share_meta) = Len(lines)
    /\ pc \notin {"idle", "Collecting", "Decoded", "Parsed"}

\* Two of the shares differ in their identifier (bytes 0 and 1), and in
\* their group threshold or group count (byte 2).
SomeIdentifiersDiffer ==
    \E i, j \in 1..Len(shares) : <<shares[i][1], shares[i][2]>> # <<shares[j][1], shares[j][2]>>

SomeGroupParamsDiffer ==
    \E i, j \in 1..Len(shares) : shares[i][3] # shares[j][3]

GroupsInspected ==
    /\ DOMAIN shares_by_group # {}
    /\ pc # "Grouped"

\* The group indexes (high nibble of byte 3) under which two shares differ
\* in member threshold (low nibble of byte 3).
MixedGroups ==
    {g \in 0..15 :
        \E i, j \in 1..Len(shares) :
            /\ shares[i][4] \div 16 = g
            /\ shares[j][4] \div 16 = g
            /\ shares[i][4] % 16 # shares[j][4] % 16}

\* C6: after the cross-share checks pass, if some group holds two shares
\* with different member thresholds, recover fails with 'mismatched share
\* member thresholds in group G', G being the number (from 1) of such a
\* group, however many other groups are recoverable; sskr_combine is not
\* called.
MemberThresholdMismatch ==
    (GroupsInspected /\ MixedGroups # {}) =>
        /\ pc = "Failed"
        /\ result.kind = "MismatchedMemberThresholds"
        /\ (result.value[1] - 1) \in MixedGroups
        /\ combine_calls = 0

\* recover has refused a group with mixed member thresholds after it found
\* another group recoverable.
MemberThresholdMismatchWitness ==
    /\ pc = "Failed"
    /\ result.kind = "MismatchedMemberThresholds"
    /\ Len(recoverable_groups) = 1
    /\ share_meta[1][2] = 1

\* The group indexes of which the shares hold at least member_threshold
\* shares.
RecoverableSet ==
    {g \in 0..15 :
        \E i \in 1..Len(shares) :
            /\ shares[i][4] \div 16 = g
            /\ Cardinality({j \in 1..Len(shares) : shares[j][4] \div 16 = g})
                   >= (shares[i][4] % 16) + 1}

\* C9: when the loop over the groups has ended without a mismatch and the
\* recoverable groups are fewer than group_threshold, recover fails with
\* the 'not enough groups' error, and the group numbers it lists are the
\* recoverable groups' group_index values plus 1, each once.
NotEnoughGroupsListed ==
    (/\ GroupsInspected
     /\ MixedGroups = {}
     /\ Cardinality(RecoverableSet) < (shares[1][3] \div 16) + 1) =>
        /\ pc = "Failed"
        /\ result.kind = "NotEnoughGroups"
        /\ Len(result.value[3]) = Cardinality(RecoverableSet)
        /\ {result.value[3][k] : k \in 1..Len(result.value[3])}
               = {g + 1 : g \in RecoverableSet}

\* recover has refused shares of two groups of which one only is
\* recoverable, and has listed that one.
NotEnoughGroupsListedWitness ==
    /\ pc = "Failed"
    /\ result.kind = "NotEnoughGroups"
    /\ Cardinality(DOMAIN shares_by_group) = 2
    /\ result.value[2] = 1
    /\ result.value[3] = <<2>>

\* recover has made up the share list for sskr_combine.
Selected == pc \in {"Gathered", "Combined", "MnemonicReady"}

\* The group indexes (high nibble of byte 3) of the shares handed to
\* sskr_combine.
SelectedGroups ==
    {shares_for_recovery[k][4] \div 16 : k \in 1..Len(shares_for_recovery)}

\* The list handed to sskr_combine holds the shares of group_threshold
\* recoverable groups: every supplied share of those groups once, and
\* nothing else.
SelectionComplete ==
    Selected =>
        /\ Cardinality(SelectedGroups) = (shares[1][3] \div 16) + 1
        /\ SelectedGroups \subseteq RecoverableSet
        /\ {shares_for_recovery[k] : k \in 1..Len(shares_for_recovery)}
               = {shares[i] : i \in {j \in 1..Len(shares) :
                                         shares[j][4] \div 16 \in SelectedGroups}}
        /\ Len(shares_for_recovery)
               = Cardinality({j \in 1..Len(shares) :
                                  shares[j][4] \div 16 \in SelectedGroups})

\* A second call of recover on the same lines hands to sskr_combine the
\* list the first call handed to it.
SelectionRepeats ==
    (Selected /\ handed_before # <<>>) => shares_for_recovery = handed_before

\* C11: when at least group_threshold groups are recoverable, recover
\* selects exactly group_threshold recoverable groups by a fixed rule, so
\* that two runs on the same lines hand the same share list to the engine,
\* and it hands over every supplied share of exactly those groups, those
\* beyond member_threshold too, and no share of another group.
DeterministicSelection ==
    SelectionComplete /\ SelectionRepeats

\* The place of a position of recover in the order of its steps; an attempt
\* that has ended, however it ended, is in the last place.
StageRank(p) ==
    CASE p = "idle"              -> 0
      [] p = "Collecting"        -> 1
      [] p = "Decoded"           -> 2
      [] p = "Parsed"            -> 3
      [] p = "MetadataValidated" -> 4
      [] p = "Grouped"           -> 5
      [] p = "Recoverable"       -> 6
      [] p = "Gathered"          -> 7
      [] p = "Combined"          -> 8
      [] p = "MnemonicReady"     -> 9
      [] p = "Failed"            -> 9
      [] p = "Aborted"           -> 9

\* One step of an attempt, as C12 allows it.
GatedStep ==
    \* forward only, and nothing after the end
    /\ StageRank(pc') >= StageRank(pc)
    /\ pc \in {"MnemonicReady", "Failed", "Aborted"} => UNCHANGED vars
    \* a failure is returned as it is and ends the attempt
    /\ ~result'.ok /\ result' # NoResult => pc' \in {"Failed", "Aborted"}
    /\ pc' = "Failed" => ~result'.ok /\ result' # NoResult
    \* metadata is parsed only of lines that all decoded and unwrapped
    /\ (share_ids' # share_ids \/ share_meta' # share_meta) =>
           /\ Len(shares) = Len(lines)
           /\ \A i \in 1..Len(lines) :
                  LET data == byteword_string_to_bytes(lines[i], minimal)
                  IN  /\ data.ok
                      /\ cbor_untag_share(data.value) = Ok(shares[i])
    \* sskr_combine is called once at most, after all four checks passed
    /\ combine_calls' # combine_calls =>
           /\ combine_calls = 0
           /\ combine_calls' = 1
           /\ ~SomeIdentifiersDiffer
           /\ ~SomeGroupParamsDiffer
           /\ MixedGroups = {}
           /\ Cardinality(RecoverableSet) >= (shares[1][3] \div 16) + 1

\* C12: one recover attempt moves only forward through its stages; no
\* metadata is parsed unless every line decoded and unwrapped; sskr_combine
\* is called at most once, and only after the identifier, group-parameter,
\* member-threshold and group-count checks all passed; once a step fails
\* the attempt ends with that error and no later step runs.
StrictGates == [][GatedStep]_vars

\* An attempt has failed at the group-count gate, and another has called
\* sskr_combine and made the mnemonic: here the second, on shares of two
\* groups.
StrictGatesWitness ==
    /\ pc = "MnemonicReady"
    /\ combine_calls = 1
    /\ Cardinality(DOMAIN shares_by_group) = 2

\* C13: for every list of share lines, the empty one too, recover ends by
\* returning a mnemonic or an error value; it never aborts through an
\* out-of-range access to the share, identifier or metadata lists.
NeverAborts ==
    /\ pc # "Aborted"
    /\ Returned => (result.ok \/ result.kind \notin {"None", "Panic"})

\* The two nibbles of a byte.
HighNibble(b) == b \div 16
LowNibble(b) == b % 16

\* share_metadata has returned.
Parsed == mpc = "done"

\* C14: share_metadata returns an error and no metadata exactly when the
\* payload is shorter than the header ('too short'), or group_threshold >
\* group_count ('invalid group threshold'), or the high nibble of byte 4 is
\* not zero ('invalid reserved bits'), checked in that order; it returns Ok
\* for every other payload.
MetadataErrors ==
    Parsed =>
        IF Len(source) < METADATA_SIZE_BYTES
        THEN ~metadata.ok /\ metadata.kind = "ShareTooShort"
        ELSE IF HighNibble(source[3]) + 1 > LowNibble(source[3]) + 1
             THEN ~metadata.ok /\ metadata.kind = "InvalidGroupThreshold"
             ELSE IF HighNibble(source[5]) # 0
                  THEN ~metadata.ok /\ metadata.kind = "InvalidReservedBits"
                  ELSE metadata.ok /\ metadata.kind = "Ok"

\* A payload with both an invalid group threshold and reserved bits set
\* has been refused for its group threshold.
MetadataErrorsWitness ==
    /\ Parsed
    /\ Len(source) = METADATA_SIZE_BYTES
    /\ source[3] = 16
    /\ source[5] = 255
    /\ metadata.kind = "InvalidGroupThreshold"

\* C15: of every payload that share_metadata accepts, identifier = byte 0 *
\* 256 + byte 1, group_threshold = high nibble of byte 2 + 1, group_count =
\* low nibble of byte 2 + 1, group_index = high nibble of byte 3,
\* member_threshold = low nibble of byte 3 + 1, member_index = low nibble
\* of byte 4; the thresholds and the count lie in 1..16, the indexes in
\* 0..15, and group_threshold <= group_count.
MetadataValues ==
    (Parsed /\ metadata.ok) =>
        LET identifier       == metadata.value[1]
            group_index      == metadata.value[2][1]
            group_thr        == metadata.value[2][2]
            group_count      == metadata.value[2][3]
            member_index     == metadata.value[2][4]
            member_threshold == metadata.value[2][5]
        IN  /\ identifier = source[1] * 256 + source[2]
            /\ group_thr = HighNibble(source[3]) + 1
            /\ group_count = LowNibble(source[3]) + 1
            /\ group_index = HighNibble(source[4])
            /\ member_threshold = LowNibble(source[4]) + 1
            /\ member_index = LowNibble(source[5])
            /\ group_thr \in 1..16 /\ group_count \in 1..16
            /\ member_threshold \in 1..16
            /\ group_index \in 0..15 /\ member_index \in 0..15
            /\ group_thr <= group_count

\* A payload of 16 of 16 groups, group index 15, member threshold 16 and
\* member index 1, with data after the header, has been accepted.
MetadataValuesWitness ==
    /\ Parsed
    /\ metadata.ok
    /\ Len(source) = 6
    /\ source[3] = 255
    /\ source[4] = 255
    /\ source[5] = 1
====
